---- MODULE Spec2Model ----
(***************************************************************************)
(* A model of caper/caper_base.py: class CaperBase.                        *)
(*                                                                         *)
(* Python strings are sequences of one-character strings, so that          *)
(* os.path.join, str.startswith and strftime are computed character by     *)
(* character.  Python's None is the one-element sequence <<"None">>, which *)
(* no string of single characters equals.                                  *)
(***************************************************************************)
EXTENDS Integers, Sequences, FiniteSets, TLC

VARIABLES
    args,       \* the arguments __init__ was called with
    raised,     \* what __init__ raised: "None" or "ValueError"
    self,       \* the constructed object's fields (NoObject when __init__ raised)
    dirs,       \* local filesystem: the directories that exist (resolved paths)
    files,      \* local filesystem: the regular files that exist (resolved paths)
    allocs,     \* every create_timestamped_tmp_dir call that returned
    calls,      \* every AutoURI(f).localize_on(...) call made, in order
    hbfile,     \* the heartbeat file: NoFile or [host, port, mtime]
    clock,      \* the filesystem clock the heartbeat tracker reads
    lastWrite,  \* the latest heartbeat write: NoWrite or [host, port, at]
    ret,        \* the outcome of the latest operation
    nops        \* the number of steps taken so far

vars == <<args, raised, self, dirs, files, allocs, calls, hbfile, clock,
          lastWrite, ret, nops>>

-----------------------------------------------------------------------------
(* Bounds of the model. *)

\* steps in one behaviour of Spec and of SpecLocalize
MaxOps == 2

\* create_timestamped_tmp_dir calls in one behaviour of SpecAlloc
MaxAllocs == 3

\* steps in one behaviour of SpecHeartbeat
MaxBeats == 5

-----------------------------------------------------------------------------
(* Python values. *)

None == <<"None">>

\* bool(x) for x a str or None
Truthy(x) == x # None /\ x # <<>>

\* s.startswith(p)
StartsWith(s, p) == Len(s) >= Len(p) /\ SubSeq(s, 1, Len(p)) = p

\* s.endswith(p)
EndsWith(s, p) ==
    Len(s) >= Len(p) /\ SubSeq(s, Len(s) - Len(p) + 1, Len(s)) = p

sep == <<"/">>

\* the literal '/tmp' of line 50
TMP == <<"/", "t", "m", "p">>

GS == <<"g", "s", ":", "/", "/">>
S3 == <<"s", "3", ":", "/", "/">>

\* the names bound in the namespace of module caper_base: the imports of
\* lines 1-5, logger (line 8) and CaperBase (line 11).  Nothing else is bound.
ModuleGlobals ==
    [n \in {"logging", "os", "AutoURI", "AbsPath", "GCSURI", "S3URI",
            "datetime", "ServerHeartbeat", "logger", "CaperBase"} |-> n]

-----------------------------------------------------------------------------
(* The URI library (autouri), at its interface. *)

\* os.path.isabs
isabs(s) == StartsWith(s, sep)

\* AbsPath(p).is_valid
AbsPath_is_valid(p) == p # None /\ isabs(p)

\* GCSURI(u).is_valid
GCSURI_is_valid(u) == u # None /\ StartsWith(u, GS)

\* S3URI(u).is_valid
S3URI_is_valid(u) == u # None /\ StartsWith(u, S3)

-----------------------------------------------------------------------------
(* CaperBase.__init__ *)

NoObject == [constructed |-> FALSE]

\* ServerHeartbeat(heartbeat_file=..., heartbeat_timeout=...), lines 65-67
NewServerHeartbeat(file, timeout) ==
    [present |-> TRUE, heartbeat_file |-> file, heartbeat_timeout |-> timeout]

\* self._server_heartbeat = None, line 69
NoTracker == [present |-> FALSE]

\* the tracker built with the default timeout whatever the caller passed
server_heartbeat_of_default_timeout(a) ==
    IF Truthy(a.server_heartbeat_file)
    THEN NewServerHeartbeat(a.server_heartbeat_file, 2)
    ELSE NoTracker

\* the value of self._server_heartbeat, lines 64-69
server_heartbeat_of(a) ==
    IF Truthy(a.server_heartbeat_file)
    THEN NewServerHeartbeat(a.server_heartbeat_file, a.server_heartbeat_timeout)
    ELSE NoTracker

\* the checks of lines 47-58: the exception raised, or "None"
init_raises(a) ==
    IF ~AbsPath_is_valid(a.tmp_dir) THEN "ValueError"
    ELSE IF a.tmp_dir = TMP THEN "ValueError"
    ELSE IF Truthy(a.tmp_gcs_bucket) /\ ~GCSURI_is_valid(a.tmp_gcs_bucket)
         THEN "ValueError"
    ELSE IF Truthy(a.tmp_s3_bucket) /\ ~S3URI_is_valid(a.tmp_s3_bucket)
         THEN "ValueError"
    ELSE "None"

\* the object after __init__ returns, lines 60-69
CaperBase_init(a) ==
    IF init_raises(a) # "None" THEN NoObject
    ELSE [constructed |-> TRUE,
          tmp_dir |-> a.tmp_dir,
          tmp_gcs_bucket |-> a.tmp_gcs_bucket,
          tmp_s3_bucket |-> a.tmp_s3_bucket,
          server_heartbeat |-> server_heartbeat_of(a)]

-----------------------------------------------------------------------------
(* The local filesystem.  A resolved path is the sequence of its           *)
(* components; the root directory is the empty sequence.                    *)

\* the working directory of the process
Cwd == << <<"w">> >>

\* the components of a path string: split on "/", empty components dropped
RECURSIVE Components(_, _)
Components(s, cur) ==
    IF s = <<>> THEN (IF cur = <<>> THEN <<>> ELSE <<cur>>)
    ELSE IF Head(s) = "/"
         THEN (IF cur = <<>> THEN <<>> ELSE <<cur>>) \o Components(Tail(s), <<>>)
         ELSE Components(Tail(s), Append(cur, Head(s)))

\* the directory entry a path string names
Resolve(s) ==
    IF isabs(s) THEN Components(s, <<>>) ELSE Cwd \o Components(s, <<>>)

\* a resolved path and all its ancestors
Prefixes(p) == {SubSeq(p, 1, k) : k \in 0..Len(p)}

\* os.makedirs(path) without exist_ok: an existing leaf is an error too
makedirs_raises_no_exist_ok(path, ds, fl) ==
    \/ Prefixes(Resolve(path)) \cap fl # {}
    \/ Resolve(path) \in ds

\* os.makedirs(path, exist_ok=True), line 124, raises when a component of the
\* path is a regular file; an existing directory is not an error
makedirs_raises(path, ds, fl) == Prefixes(Resolve(path)) \cap fl # {}

\* the directories after os.makedirs(path, exist_ok=True) returns: every
\* missing component has been created

makedirs_dirs(path, ds) == ds \cup Prefixes(Resolve(path))

-----------------------------------------------------------------------------
(* create_timestamped_tmp_dir *)

Digits == <<"0", "1", "2", "3", "4", "5", "6", "7", "8", "9">>

\* the decimal digits of n, zero-padded to width w (strftime's %m, %d, ...)
RECURSIVE ZeroPad(_, _)
ZeroPad(n, w) ==
    IF w = 0 THEN <<>> ELSE Append(ZeroPad(n \div 10, w - 1), Digits[(n % 10) + 1])

\* dt.strftime('%Y%m%d_%H%M%S'): resolution of one second
strftime_seconds(dt) ==
    ZeroPad(dt.year, 4) \o ZeroPad(dt.month, 2) \o ZeroPad(dt.day, 2)
    \o <<"_">>
    \o ZeroPad(dt.hour, 2) \o ZeroPad(dt.minute, 2) \o ZeroPad(dt.second, 2)

\* dt.strftime('%Y%m%d_%H%M%S_%f'), line 122
strftime(dt) ==
    ZeroPad(dt.year, 4) \o ZeroPad(dt.month, 2) \o ZeroPad(dt.day, 2)
    \o <<"_">>
    \o ZeroPad(dt.hour, 2) \o ZeroPad(dt.minute, 2) \o ZeroPad(dt.second, 2)
    \o <<"_">>
    \o ZeroPad(dt.microsecond, 6)

\* posixpath.join(a, b)
join2(a, b) ==
    IF StartsWith(b, sep) THEN b
    ELSE IF a = <<>> \/ EndsWith(a, sep) THEN a \o b
    ELSE a \o sep \o b

\* os.path.join(self._tmp_dir, prefix, timestamp), line 123
tmp_dir_path(obj, prefix, timestamp) ==
    join2(join2(obj.tmp_dir, prefix), timestamp)

\* create_timestamped_tmp_dir with line 123 assigning self._tmp_dir instead of
\* the local tmp_dir
create_timestamped_tmp_dir_rebinding(prefix, now) ==
    LET timestamp == strftime(now)
        tmp_dir == tmp_dir_path(self, prefix, timestamp)
    IN  /\ self.constructed
        /\ IF makedirs_raises(tmp_dir, dirs, files)
           THEN /\ ret' = [op |-> "create_timestamped_tmp_dir",
                           prefix |-> prefix, now |-> now,
                           raised |-> "OSError"]
                /\ UNCHANGED <<dirs, allocs>>
           ELSE /\ dirs' = makedirs_dirs(tmp_dir, dirs)
                /\ allocs' = allocs \cup
                       {[prefix |-> prefix, now |-> now, value |-> tmp_dir]}
                /\ ret' = [op |-> "create_timestamped_tmp_dir",
                           prefix |-> prefix, now |-> now,
                           raised |-> "None", value |-> tmp_dir,
                           existed |-> Resolve(tmp_dir) \in dirs]
        /\ self' = [self EXCEPT !.tmp_dir = tmp_dir]
        /\ nops' = nops + 1
        /\ UNCHANGED <<args, raised, files, calls, hbfile, clock, lastWrite>>

\* one call of create_timestamped_tmp_dir(prefix), lines 122-129, with
\* datetime.now() reading `now`
create_timestamped_tmp_dir(prefix, now) ==
    LET timestamp == strftime(now)
        tmp_dir == tmp_dir_path(self, prefix, timestamp)
    IN  /\ self.constructed
        /\ IF makedirs_raises(tmp_dir, dirs, files)
           THEN /\ ret' = [op |-> "create_timestamped_tmp_dir",
                           prefix |-> prefix, now |-> now,
                           raised |-> "OSError"]
                /\ UNCHANGED <<dirs, allocs>>
           ELSE /\ dirs' = makedirs_dirs(tmp_dir, dirs)
                /\ allocs' = allocs \cup
                       {[prefix |-> prefix, now |-> now, value |-> tmp_dir]}
                /\ ret' = [op |-> "create_timestamped_tmp_dir",
                           prefix |-> prefix, now |-> now,
                           raised |-> "None", value |-> tmp_dir,
                           existed |-> Resolve(tmp_dir) \in dirs]
        /\ nops' = nops + 1
        /\ UNCHANGED <<args, raised, self, files, calls, hbfile, clock,
                       lastWrite>>

-----------------------------------------------------------------------------
(* localize_on_backend *)

\* lines 104-109: the exception the name lookups raise, or the value of
\* loc_prefix.  BACKEND_GCP and BACKEND_AWS are looked up in the module's
\* namespace when the comparison is evaluated.
loc_prefix(obj, backend) ==
    IF "BACKEND_GCP" \notin DOMAIN ModuleGlobals
    THEN [raised |-> "NameError"]
    ELSE IF backend = ModuleGlobals["BACKEND_GCP"]
    THEN [raised |-> "None", value |-> obj.tmp_gcs_bucket]
    ELSE IF "BACKEND_AWS" \notin DOMAIN ModuleGlobals
    THEN [raised |-> "NameError"]
    ELSE IF backend = ModuleGlobals["BACKEND_AWS"]
    THEN [raised |-> "None", value |-> obj.tmp_s3_bucket]
    ELSE [raised |-> "None", value |-> obj.tmp_dir]

\* what AutoURI(f).localize_on(prefix, ...) may do: return the destination
\* or fail; it cannot copy under a prefix that is None
localize_on_outcomes(f, prefix) ==
    IF prefix = None THEN {[raised |-> "Error"]}
    ELSE {[raised |-> "None", value |-> join2(prefix, f)],
          [raised |-> "IOError"]}

\* one call of localize_on_backend(f, backend, recursive, make_md5_file),
\* lines 104-112
localize_on_backend(f, backend, recursive, make_md5_file) ==
    LET p == loc_prefix(self, backend)
        call == [op |-> "localize_on_backend", f |-> f, backend |-> backend,
                 recursive |-> recursive, make_md5_file |-> make_md5_file]
    IN  /\ self.constructed
        /\ IF p.raised # "None"
           THEN /\ ret' = call @@ [raised |-> p.raised, ncalls |-> 0]
                /\ UNCHANGED calls
           ELSE \E out \in localize_on_outcomes(f, p.value) :
                /\ calls' = Append(calls,
                       [f |-> f, backend |-> backend, loc_prefix |-> p.value,
                        recursive |-> recursive,
                        make_md5_file |-> make_md5_file, out |-> out])
                /\ ret' = call @@ [ncalls |-> 1] @@ out
        /\ nops' = nops + 1
        /\ UNCHANGED <<args, raised, self, dirs, files, allocs, hbfile, clock,
                       lastWrite>>

-----------------------------------------------------------------------------
(* The heartbeat tracker self.server_heartbeat, as the specification       *)
(* describes it: ServerHeartbeat is defined in caper/server_heartbeat.py.  *)

NoFile == [exists |-> FALSE]
NoWrite == [written |-> FALSE]
Absent == [found |-> FALSE]

\* write(host, port): the record replaces the file's content, and the
\* file's modification time becomes the current time
heartbeat_write(host, port) ==
    /\ self.constructed
    /\ self.server_heartbeat.present
    /\ hbfile' = [exists |-> TRUE,
                  path |-> self.server_heartbeat.heartbeat_file,
                  host |-> host, port |-> port, mtime |-> clock]
    /\ lastWrite' = [written |-> TRUE, host |-> host, port |-> port,
                     at |-> clock]
    /\ ret' = [op |-> "write", host |-> host, port |-> port]
    /\ nops' = nops + 1
    /\ UNCHANGED <<args, raised, self, dirs, files, allocs, calls, clock>>

\* the value of read() on tracker hb at time t
heartbeat_read_value(hb, file, t) ==
    IF ~file.exists THEN Absent
    ELSE IF file.mtime < t - hb.heartbeat_timeout THEN Absent
    ELSE [found |-> TRUE, host |-> file.host, port |-> file.port]

\* read()
heartbeat_read ==
    /\ self.constructed
    /\ self.server_heartbeat.present
    /\ ret' = [op |-> "read", at |-> clock,
               value |-> heartbeat_read_value(self.server_heartbeat, hbfile,
                                              clock)]
    /\ nops' = nops + 1
    /\ UNCHANGED <<args, raised, self, dirs, files, allocs, calls, hbfile,
                   clock, lastWrite>>

\* time passes
Tick ==
    /\ clock' = clock + 1
    /\ nops' = nops + 1
    /\ UNCHANGED <<args, raised, self, dirs, files, allocs, calls, hbfile,
                   lastWrite, ret>>

-----------------------------------------------------------------------------
(* Inputs. *)

A == <<"/", "a">>
BC == <<"/", "b", "/", "c">>

\* line 12
DEFAULT_SERVER_HEARTBEAT_FILE ==
    <<"~", "/", ".", "c", "a", "p", "e", "r", "/", "d", "e", "f", "a", "u",
      "l", "t", "_", "s", "e", "r", "v", "e", "r", "_", "h", "e", "a", "r",
      "t", "b", "e", "a", "t">>

TmpDirArgs == {TMP, TMP \o sep, A, BC, <<"a">>, <<>>}
GcsArgs == {None, <<>>, GS \o <<"b">>, S3 \o <<"b">>}
S3Args == {None, <<>>, S3 \o <<"b">>, GS \o <<"b">>}
HeartbeatFileArgs == {DEFAULT_SERVER_HEARTBEAT_FILE, <<"/", "h">>, <<>>, None}
HeartbeatTimeoutArgs == {1, 2}

BaseArgs ==
    [tmp_dir |-> A, tmp_gcs_bucket |-> None, tmp_s3_bucket |-> None,
     server_heartbeat_file |-> DEFAULT_SERVER_HEARTBEAT_FILE,
     server_heartbeat_timeout |-> 2]

\* every combination of storage roots
StorageArgs ==
    {[BaseArgs EXCEPT !.tmp_dir = d, !.tmp_gcs_bucket = g, !.tmp_s3_bucket = s] :
        d \in TmpDirArgs, g \in GcsArgs, s \in S3Args}

\* every local root, cloud roots absent
TmpDirOnlyArgs == {[BaseArgs EXCEPT !.tmp_dir = d] : d \in TmpDirArgs}

\* every heartbeat setting
HeartbeatArgs ==
    {[BaseArgs EXCEPT !.server_heartbeat_file = f,
                      !.server_heartbeat_timeout = t] :
        f \in HeartbeatFileArgs, t \in HeartbeatTimeoutArgs}

\* a few configurations of each kind
MixedArgs ==
    {BaseArgs,
     [BaseArgs EXCEPT !.tmp_dir = TMP],
     [BaseArgs EXCEPT !.tmp_dir = TMP \o sep, !.tmp_gcs_bucket = GS \o <<"b">>],
     [BaseArgs EXCEPT !.tmp_dir = BC, !.tmp_s3_bucket = S3 \o <<"b">>,
                      !.server_heartbeat_timeout = 1],
     [BaseArgs EXCEPT !.tmp_gcs_bucket = <<>>, !.server_heartbeat_file = None]}

PrefixArgs == {<<>>, <<"p", "/", "q">>, <<"/", "x">>, <<"f">>}

\* the readings of datetime.now()
ClockReadings ==
    {dt \in [year : {2020}, month : {1}, day : {1}, hour : {1},
             minute : {1, 11}, second : {1, 11}, microsecond : {0, 1}] :
        dt.minute # dt.second}

Sources == {<<"/", "s", ".", "j">>}
Backends == {"gcp", "aws", "Local", "sge"}
Hosts == {"h", "g"}
Ports == {1234, 80}

-----------------------------------------------------------------------------
(* Specifications. *)

\* the state after CaperBase(**a) for some a in argset, on a filesystem
\* holding the directories /, /tmp, /a and the regular file /a/f
InitWith(argset) ==
    /\ args \in argset
    /\ raised = init_raises(args)
    /\ self = CaperBase_init(args)
    /\ dirs = {<<>>, << <<"t", "m", "p">> >>, << <<"a">> >>}
    /\ files = {<< <<"a">>, <<"f">> >>}
    /\ allocs = {}
    /\ calls = <<>>
    /\ hbfile = NoFile
    /\ clock = 0
    /\ lastWrite = NoWrite
    /\ ret = [op |-> "__init__"]
    /\ nops = 0

Allocate ==
    \E prefix \in PrefixArgs, now \in ClockReadings :
        create_timestamped_tmp_dir(prefix, now)

Localize ==
    \E f \in Sources, backend \in Backends, recursive \in BOOLEAN,
       make_md5_file \in BOOLEAN :
        localize_on_backend(f, backend, recursive, make_md5_file)

HeartbeatWrite == \E host \in Hosts, port \in Ports : heartbeat_write(host, port)

HeartbeatRead == heartbeat_read

\* any operation sequence on one configuration
Init == InitWith(MixedArgs)

Next ==
    \/ nops < MaxOps /\ Allocate
    \/ nops < MaxOps /\ Localize
    \/ nops < MaxOps /\ HeartbeatWrite
    \/ nops < MaxOps /\ HeartbeatRead
    \/ nops < MaxOps /\ Tick

Spec == Init /\ [][Next]_vars

\* construction over every combination of storage roots, then localize calls
InitStorage == InitWith(StorageArgs)

NextLocalize == nops < MaxOps /\ Localize

SpecLocalize == InitStorage /\ [][NextLocalize]_vars

\* sequences of create_timestamped_tmp_dir calls
InitAlloc == InitWith(TmpDirOnlyArgs)

NextAlloc == nops < MaxAllocs /\ Allocate

SpecAlloc == InitAlloc /\ [][NextAlloc]_vars

\* heartbeat writes, reads and clock advances
InitHeartbeat == InitWith(HeartbeatArgs)

NextHeartbeat ==
    \/ nops < MaxBeats /\ HeartbeatWrite
    \/ nops < MaxBeats /\ HeartbeatRead
    \/ nops < MaxBeats /\ Tick

SpecHeartbeat == InitHeartbeat /\ [][NextHeartbeat]_vars

-----------------------------------------------------------------------------
(* What the claims speak of. *)

\* the path string s names the directory the literal '/tmp' names
DenotesTmp(s) == s # None /\ isabs(s) /\ Resolve(s) = Resolve(TMP)

\* a create_timestamped_tmp_dir call has just returned
Allocated == ret.op = "create_timestamped_tmp_dir" /\ ret.raised = "None"

\* a localize_on_backend call has just ended
Localized == ret.op = "localize_on_backend"

\* what read() is to return at time t: the latest write, unless it is older
\* than the configured timeout
ExpectedRead(t) ==
    IF lastWrite.written /\ lastWrite.at >= t - args.server_heartbeat_timeout
    THEN [found |-> TRUE, host |-> lastWrite.host, port |-> lastWrite.port]
    ELSE Absent

-----------------------------------------------------------------------------
(* The claims. *)

\* C1: construction with a local root that denotes the temporary directory
\* fails, whatever the spelling of the path, and construction with any other
\* valid absolute local root and no cloud roots succeeds.
C1_TmpRejectedInEverySpelling ==
    /\ DenotesTmp(args.tmp_dir) => raised = "ValueError"
    /\ ( /\ AbsPath_is_valid(args.tmp_dir)
         /\ ~DenotesTmp(args.tmp_dir)
         /\ args.tmp_gcs_bucket = None
         /\ args.tmp_s3_bucket = None ) => raised = "None"

\* C2: a localize call for backend gcp (aws) fails with a configuration error
\* exactly when the GCS (S3) root was not configured, and the transfer
\* collaborator is never called with a prefix of None.
C2_UnconfiguredBackendIsConfigurationError ==
    /\ (Localized /\ ret.backend = "gcp") =>
           (ret.raised = "ValueError" <=> self.tmp_gcs_bucket = None)
    /\ (Localized /\ ret.backend = "aws") =>
           (ret.raised = "ValueError" <=> self.tmp_s3_bucket = None)
    /\ \A i \in DOMAIN calls : calls[i].loc_prefix # None

\* C3: a localize call for a backend that is neither gcp nor aws hands the
\* collaborator the local root as the destination prefix, with the call's
\* options, and ends as the collaborator ends.
C3_OtherBackendsAreLocal ==
    (Localized /\ ret.backend \notin {"gcp", "aws"}) =>
        /\ ret.ncalls = 1
        /\ calls # <<>>
        /\ calls[Len(calls)].loc_prefix = self.tmp_dir
        /\ calls[Len(calls)].recursive = ret.recursive
        /\ calls[Len(calls)].make_md5_file = ret.make_md5_file
        /\ ret.raised = calls[Len(calls)].out.raised

\* C4: a localize call that returns has called the collaborator once, on its
\* source, with the prefix of its backend and its flags, and returns what the
\* collaborator returned.  (No localize call returns: see loc_prefix.)
C4_PassThrough ==
    (Localized /\ ret.raised = "None") =>
        /\ ret.ncalls = 1
        /\ calls # <<>>
        /\ LET c == calls[Len(calls)] IN
            /\ c.f = ret.f
            /\ c.loc_prefix = (CASE ret.backend = "gcp" -> self.tmp_gcs_bucket
                                 [] ret.backend = "aws" -> self.tmp_s3_bucket
                                 [] OTHER -> self.tmp_dir)
            /\ c.recursive = ret.recursive
            /\ c.make_md5_file = ret.make_md5_file
            /\ c.out.value = ret.value

\* C5: construction succeeds exactly when the local root is a valid absolute
\* path other than the temporary directory and every cloud root that was
\* supplied is a valid URI of its scheme.
C5_ConstructedIffRootsValid ==
    raised = "None" <=>
        /\ AbsPath_is_valid(args.tmp_dir)
        /\ ~DenotesTmp(args.tmp_dir)
        /\ args.tmp_gcs_bucket # None => GCSURI_is_valid(args.tmp_gcs_bucket)
        /\ args.tmp_s3_bucket # None => S3URI_is_valid(args.tmp_s3_bucket)

\* C6: every path create_timestamped_tmp_dir returned is an existing
\* directory, and two calls with the same prefix whose clock readings differ
\* returned different paths, naming different directories.
C6_CreatedAndDistinct ==
    /\ \A a \in allocs : Resolve(a.value) \in dirs
    /\ \A a, b \in allocs :
           (a.prefix = b.prefix /\ a.now # b.now) =>
               /\ a.value # b.value
               /\ Resolve(a.value) # Resolve(b.value)

\* two calls with the same prefix, one microsecond apart, have returned
C6_Witness ==
    \E a, b \in allocs :
        /\ a.prefix = b.prefix
        /\ a.now = [b.now EXCEPT !.microsecond = b.now.microsecond + 1]

\* C7: the path create_timestamped_tmp_dir returns is the local root, then
\* the prefix, then the timestamp, for every prefix; so it lies beneath the
\* local root.
C7_UnderLocalRoot ==
    Allocated =>
        /\ Resolve(ret.value) =
               Resolve(self.tmp_dir) \o Components(ret.prefix, <<>>)
                   \o <<strftime(ret.now)>>
        /\ Resolve(self.tmp_dir) \in Prefixes(Resolve(ret.value))

\* C8: a create_timestamped_tmp_dir call whose destination already exists as
\* a directory returns without error the path the earlier call returned; a
\* call that returns leaves every directory that existed and has created
\* every component of the returned path.
C8_PreExistenceTolerated ==
    [][ (ret'.op = "create_timestamped_tmp_dir" /\ nops' = nops + 1) =>
          /\ \A a \in allocs :
                 (a.prefix = ret'.prefix /\ a.now = ret'.now) =>
                     /\ ret'.raised = "None"
                     /\ ret'.value = a.value
          /\ ret'.raised = "None" =>
                 /\ dirs \subseteq dirs'
                 /\ Prefixes(Resolve(ret'.value)) \subseteq dirs' ]_vars

\* a call has returned a directory that existed before it
C8_Witness == Allocated /\ ret.existed

\* C9: read() returns the host and port of the latest write when that write
\* is not older than the configured timeout, and absent otherwise.
C9_ReadIsLatestFreshWrite ==
    ret.op = "read" => ret.value = ExpectedRead(ret.at)

\* read() has returned absent for a write that became too old
C9_Witness ==
    /\ ret.op = "read"
    /\ lastWrite.written
    /\ lastWrite.at < ret.at - args.server_heartbeat_timeout
    /\ ret.value = Absent

====
